---------------------------- MODULE Spec2Model ----------------------------
(***************************************************************************)
(* Model of the pokesprite tools `chop` (cmd/chop: chopFromJSON,           *)
(* chopFromSCSS, scssSelectorToFilename) and `positions`                   *)
(* (extractSpritePositions, lineRE).                                       *)
(*                                                                         *)
(* Go strings are modelled as sequences of one-character strings, so that  *)
(* splitting, prefix tests, concatenation, number parsing and the two      *)
(* regular expressions are computed character by character.                *)
(***************************************************************************)
EXTENDS Integers, Sequences, FiniteSets, TLC

VARIABLES
    pc,          \* position of the running program
    mode,        \* "json" | "scss" | "positions" | "selector"
    img,         \* decoded source image: [W, H]; pixel (x,y) has value Pixel(x,y)
    data,        \* the parsed Data of chopFromJSON
    lines,       \* strings.Split(raw, "\n") of the stylesheet
    rule,        \* chopFromSCSS: what the current line was parsed to
    idx,         \* 1-based position of the range loop
    spriteIndex, \* chopFromJSON's grid cursor
    files,       \* the ./images directory: filename -> file content
    emitted,     \* history: one record per completed os.Create + png.Encode
    stderr,      \* history: one record per line written to os.Stderr
    positions,   \* extractSpritePositions' map
    order,       \* extractSpritePositions' order slice
    parts,       \* argument of scssSelectorToFilename (selector spec)
    outName      \* result of scssSelectorToFilename (selector spec)

vars == <<pc, mode, img, data, lines, rule, idx, spriteIndex, files, emitted, stderr,
          positions, order, parts, outName>>

---------------------------------------------------------------------------
(* Bounds of the model. *)

MaxSegs == 4
MaxLines == 3
MaxRules == 2
MaxEntries == 4

---------------------------------------------------------------------------
(* Go strings *)

Empty == << >>

HasPrefix(s, p) == Len(s) >= Len(p) /\ SubSeq(s, 1, Len(p)) = p

TrimPrefix(s, p) == IF HasPrefix(s, p) THEN SubSeq(s, Len(p) + 1, Len(s)) ELSE s

\* Index of the first occurrence of character c in s, 0 if none.
IndexOf(s, c) ==
    LET hits == {i \in 1..Len(s) : s[i] = c}
    IN  IF hits = {} THEN 0 ELSE CHOOSE i \in hits : \A j \in hits : i <= j

\* strings.Split(s, sep) for a one-character separator.
RECURSIVE Split(_, _)
Split(s, sep) ==
    LET i == IndexOf(s, sep)
    IN  IF i = 0 THEN <<s>>
        ELSE <<SubSeq(s, 1, i - 1)>> \o Split(SubSeq(s, i + 1, Len(s)), sep)

\* strings.Join(segs, sep)
RECURSIVE Join(_, _)
Join(segs, sep) ==
    IF Len(segs) = 0 THEN Empty
    ELSE IF Len(segs) = 1 THEN segs[1]
    ELSE segs[1] \o sep \o Join(Tail(segs), sep)

---------------------------------------------------------------------------
(* Numbers *)

Digits == <<"0", "1", "2", "3", "4", "5", "6", "7", "8", "9">>

IsDigit(c) == \E d \in 1..10 : Digits[d] = c

DigitVal(c) == (CHOOSE d \in 1..10 : Digits[d] = c) - 1

\* Value of a string of decimal digits.
RECURSIVE DecVal(_, _)
DecVal(s, acc) ==
    IF Len(s) = 0 THEN acc
    ELSE DecVal(Tail(s), acc * 10 + DigitVal(Head(s)))

\* atoi on a string the patterns captured with -?\d+ or \d+; any other
\* string scans no number and leaves n at 0.
atoi(s) ==
    IF Len(s) > 0 /\ \A i \in 1..Len(s) : IsDigit(s[i]) THEN DecVal(s, 0)
    ELSE IF Len(s) > 1 /\ s[1] = "-" /\ \A i \in 2..Len(s) : IsDigit(s[i])
        THEN 0 - DecVal(Tail(s), 0)
    ELSE 0

\* strconv.Itoa, and fmt's %d
RECURSIVE ItoaNat(_)
ItoaNat(n) ==
    IF n < 10 THEN <<Digits[n + 1]>>
    ELSE ItoaNat(n \div 10) \o <<Digits[(n % 10) + 1]>>

Itoa(n) == IF n < 0 THEN <<"-">> \o ItoaNat(0 - n) ELSE ItoaNat(n)

\* Go's integer division truncates toward zero; the remainder takes the
\* sign of the dividend.
GoDiv(a, b) ==
    IF (a >= 0) = (b > 0) \/ a = 0
    THEN (IF a >= 0 THEN a ELSE 0 - a) \div (IF b > 0 THEN b ELSE 0 - b)
    ELSE 0 - ((IF a >= 0 THEN a ELSE 0 - a) \div (IF b > 0 THEN b ELSE 0 - b))

GoMod(a, b) == a - b * GoDiv(a, b)

---------------------------------------------------------------------------
(* Regular expression pieces.  A position is a 1-based index of the next   *)
(* character to read; 0 means that the match has failed.                   *)

Lower == {"a", "b", "c", "d", "e", "f", "g", "h", "i", "j", "k", "l", "m",
          "n", "o", "p", "q", "r", "s", "t", "u", "v", "w", "x", "y", "z"}

InClass(cls, c) ==
    IF cls = "space" THEN c \in {" ", "\t", "\r", "\f", "\n"}       \* \s
    ELSE IF cls = "digit" THEN IsDigit(c)                           \* \d
    ELSE IF cls = "selector" THEN c \notin {" ", "\t", "\r", "\f", "\n", "{"}  \* [^\s{]
    ELSE IF cls = "name" THEN c \in Lower \/ IsDigit(c) \/ c \in {"_", "-"}    \* [a-z0-9_-]
    ELSE IF cls = "color" THEN c \in Lower \/ c \in {"_", "-"}      \* [a-z_-]
    ELSE FALSE

\* The literal lit at position i.
Lit(s, i, lit) ==
    IF i # 0 /\ i + Len(lit) - 1 <= Len(s) /\ SubSeq(s, i, i + Len(lit) - 1) = lit
    THEN i + Len(lit)
    ELSE 0

\* cls* at position i (greedy).
Star(s, i, cls) ==
    IF i = 0 THEN 0
    ELSE CHOOSE k \in i..(Len(s) + 1) :
            /\ k = Len(s) + 1 \/ ~InClass(cls, s[k])
            /\ \A j \in i..(k - 1) : InClass(cls, s[j])

\* cls+ at position i (greedy).
Plus(s, i, cls) == LET j == Star(s, i, cls) IN IF j > i THEN j ELSE 0

\* -?\d+ at position i.
SignedNum(s, i) ==
    IF i # 0 /\ i <= Len(s) /\ s[i] = "-" THEN Plus(s, i + 1, "digit")
    ELSE Plus(s, i, "digit")

Cap(s, from, to) == SubSeq(s, from, to - 1)

NoMatch == [ok |-> FALSE]

\* The pieces a pattern is written with.
L(lit)      == [op |-> "lit", lit |-> lit]               \* literal text
WS          == [op |-> "star", cls |-> "space"]          \* \s*
WS1         == [op |-> "plus", cls |-> "space"]          \* \s+
G(cls)      == [op |-> "group", cls |-> cls]             \* (cls+)
NUM         == [op |-> "num"]                            \* (-?\d+)
OPT(lit, cls) == [op |-> "opt", lit |-> lit, cls |-> cls] \* (?:lit(cls+))?

\* Match the pattern prog at position i of s, m holding the groups captured
\* so far.  Every repetition is followed by a character outside its class,
\* so the greedy choice is the only one; an optional group is tried first
\* and given up when the rest does not match after it (an unmatched group
\* is the empty string in FindStringSubmatch).
RECURSIVE ReMatch(_, _, _, _)
ReMatch(s, i, prog, m) ==
    IF Len(prog) = 0 THEN [ok |-> TRUE, m |-> m]
    ELSE LET it   == Head(prog)
             rest == Tail(prog)
             j    == IF it.op = "lit" THEN Lit(s, i, it.lit)
                     ELSE IF it.op = "star" THEN Star(s, i, it.cls)
                     ELSE IF it.op \in {"plus", "group"} THEN Plus(s, i, it.cls)
                     ELSE IF it.op = "num" THEN SignedNum(s, i)
                     ELSE Plus(s, Lit(s, i, it.lit), it.cls)
         IN  IF it.op \in {"lit", "star", "plus"} THEN
                 (IF j = 0 THEN NoMatch ELSE ReMatch(s, j, rest, m))
             ELSE IF it.op \in {"group", "num"} THEN
                 (IF j = 0 THEN NoMatch
                  ELSE ReMatch(s, j, rest, Append(m, Cap(s, i, j))))
             ELSE \* "opt"
                 LET take == IF j = 0 THEN NoMatch
                             ELSE ReMatch(s, j, rest,
                                          Append(m, Cap(s, i + Len(it.lit), j)))
                 IN  IF take.ok THEN take
                     ELSE ReMatch(s, i, rest, Append(m, Empty))

\* FindStringSubmatch: the match at the leftmost position that has one.
ReFind(s, prog) ==
    LET starts == {i \in 1..Len(s) : ReMatch(s, i, prog, << >>).ok}
    IN  IF starts = {} THEN NoMatch
        ELSE ReMatch(s, CHOOSE i \in starts : \A k \in starts : i <= k, prog, << >>)

---------------------------------------------------------------------------
(* scssSelectorToFilename *)

SelInit == [id |-> Empty, form |-> Empty, gameFamily |-> Empty, shiny |-> FALSE]

\* One iteration of the switch over a segment.
SelSwitch(st, s) ==
    IF s = <<"c","o","l","o","r","-","s","h","i","n","y">> THEN [st EXCEPT !.shiny = TRUE]
    ELSE IF HasPrefix(s, <<"f","o","r","m","-">>)
        THEN [st EXCEPT !.form = TrimPrefix(s, <<"f","o","r","m","-">>)]
    ELSE IF HasPrefix(s, <<"g","a","m","e","-","f","a","m","i","l","y","-">>)
        THEN [st EXCEPT !.gameFamily = TrimPrefix(s, <<"g","a","m","e","-","f","a","m","i","l","y","-">>)]
    ELSE IF HasPrefix(s, <<"p","k","i","c","o","n","-">>) THEN st
    ELSE [st EXCEPT !.id = s]

RECURSIVE SelScan(_, _)
SelScan(segments, st) ==
    IF Len(segments) = 0 THEN st
    ELSE SelScan(Tail(segments), SelSwitch(st, Head(segments)))

\* The shiny / game family / form suffixes, in the order they are appended.
SelSuffixesFormFirst(st) ==
    (IF st.form # Empty THEN <<"-">> \o st.form ELSE Empty)
    \o (IF st.gameFamily # Empty THEN <<"-">> \o st.gameFamily ELSE Empty)
    \o (IF st.shiny THEN <<"-","s","h","i","n","y">> ELSE Empty)

SelSuffixes(st) ==
    (IF st.shiny THEN <<"-","s","h","i","n","y">> ELSE Empty)
    \o (IF st.gameFamily # Empty THEN <<"-">> \o st.gameFamily ELSE Empty)
    \o (IF st.form # Empty THEN <<"-">> \o st.form ELSE Empty)

SelCompose(st) ==
    IF st.id = Empty THEN Empty
    ELSE IF st.id = <<"b","a","l","l","-","l","o","v","e">> THEN <<"l","o","v","e","-","b","a","l","l",".","p","n","g">>
    ELSE st.id \o SelSuffixes(st) \o <<".","p","n","g">>

scssSelectorToFilename(p) == SelCompose(SelScan(Split(p, "."), SelInit))

---------------------------------------------------------------------------
(* Selector specification: scssSelectorToFilename applied to every selector *)
(* made of up to MaxSegs distinct segments of SegPool.                      *)

BaseTokens == { <<"0","0","1">>, <<"0","2","5">>, <<"b","a","l","l","-","l","o","v","e">> }
FormMod == <<"f","o","r","m","-","c","a","p">>
FamilyMod == <<"g","a","m","e","-","f","a","m","i","l","y","-","l","e","g","e","n","d","s","_","a","r","c","e","u","s">>
ShinyMod == <<"c","o","l","o","r","-","s","h","i","n","y">>
RegularMod == <<"c","o","l","o","r","-","r","e","g","u","l","a","r">>
SegPool == BaseTokens \cup {FormMod, FamilyMod, ShinyMod, RegularMod}

Distinct(s) == \A i, j \in 1..Len(s) : i # j => s[i] # s[j]

SelectorInputs ==
    UNION { { s \in [1..n -> SegPool] : Distinct(s) } : n \in 1..MaxSegs }

Idle ==
    /\ img = [W |-> 0, H |-> 0]
    /\ data = << >>
    /\ lines = << >>
    /\ rule = NoMatch
    /\ idx = 0
    /\ spriteIndex = 0
    /\ files = << >>
    /\ emitted = << >>
    /\ stderr = << >>
    /\ positions = << >>
    /\ order = << >>

SelInitState ==
    /\ mode = "selector"
    /\ pc = "call"
    /\ \E segs \in SelectorInputs : parts = Join(segs, <<".">>)
    /\ outName = Empty
    /\ Idle

SelApply ==
    /\ mode = "selector"
    /\ pc = "call"
    /\ outName' = scssSelectorToFilename(parts)
    /\ pc' = "done"
    /\ UNCHANGED <<mode, img, data, lines, rule, idx, spriteIndex, files, emitted,
                   stderr, positions, order, parts>>

SelNext == SelApply

SpecSel == SelInitState /\ [][SelNext]_vars

---------------------------------------------------------------------------
(* Images.  The source image is W x H with bounds origin (0,0); its pixel  *)
(* at (x,y) has a value of its own, and 0 is the transparent pixel of a    *)
(* freshly allocated RGBA image.                                           *)

Pixel(im, x, y) == y * im.W + x + 1

InImage(im, x, y) == 0 <= x /\ x < im.W /\ 0 <= y /\ y < im.H

\* image.NewRGBA(w x h) followed by draw.Draw(rgba, r, img, sp, draw.Src):
\* Draw clips r to the source bounds, so destination pixels whose source
\* lies outside the image keep the zero value.
Draw(im, sx, sy, w, h) ==
    [p \in (0..(w - 1)) \X (0..(h - 1)) |->
        IF InImage(im, sx + p[1], sy + p[2])
        THEN Pixel(im, sx + p[1], sy + p[2])
        ELSE 0]

\* A file holding the PNG encoding of a w x h pixel array.
PngFile(w, h, pix) == [valid |-> TRUE, w |-> w, h |-> h, pix |-> pix]

\* A file that os.Create made and nothing was written to.
EmptyFile == [valid |-> FALSE, w |-> 0, h |-> 0, pix |-> << >>]

\* png.Encode refuses an image without pixels ("invalid image size").
EncodeFails(w, h) == w <= 0 \/ h <= 0

\* image.NewRGBA panics on a rectangle with a negative side.
NewRGBAPanics(w, h) == w < 0 \/ h < 0

WriteFile(fs, path, content) == (path :> content) @@ fs

---------------------------------------------------------------------------
(* chopFromJSON *)

\* A *string field of the JSON description.
NilStr == [nil |-> TRUE, s |-> Empty]
Str(s) == [nil |-> FALSE, s |-> s]

\* fmt.Sprintf("%03d", n)
Fmt03d(n) ==
    LET d == ItoaNat(IF n < 0 THEN 0 - n ELSE n)
        sign == IF n < 0 THEN <<"-">> ELSE Empty
        room == 3 - Len(sign) - Len(d)
    IN  sign \o [i \in 1..(IF room > 0 THEN room ELSE 0) |-> "0"] \o d

GridHeight == GoDiv(img.H - ((data.Rows + 1) * data.Outline), data.Rows)
GridWidth  == GoDiv(img.W - ((data.Columns + 1) * data.Outline), data.Columns)

\* The test that sends an entry down the skip branch.
IsSkippedWithCount(pokemon) == pokemon.Skip /\ pokemon.SkipCount # 0

IsSkipped(pokemon) == pokemon.Skip

\* How far a skipped entry moves spriteIndex.
SkipAdvanceRaw(pokemon) == pokemon.SkipCount

SkipAdvance(pokemon) == IF pokemon.SkipCount = 0 THEN 1 ELSE pokemon.SkipCount

GridRow(i) == GoDiv(i, data.Columns)
GridColumn(i) == GoMod(i, data.Columns)

\* The source point handed to draw.Draw.
GridSrcX(column) == column * GridHeight + (column + 1) * data.Outline + data.Padding
GridSrcY(row)    == row * GridWidth + (row + 1) * data.Outline + data.Padding

GridOutW == GridWidth - 2 * data.Padding
GridOutH == GridHeight - 2 * data.Padding

GridOutName(pokemon) ==
    <<".","/","i","m","a","g","e","s","/">> \o Fmt03d(pokemon.ID)
    \o (IF ~data.Suffix.nil THEN <<"-">> \o data.Suffix.s ELSE Empty)
    \o (IF ~pokemon.Form.nil THEN <<"-">> \o pokemon.Form.s ELSE Empty)
    \o <<".","p","n","g">>

\* The computation of height and width before the loop: an integer
\* division by zero panics.
JsonStart ==
    /\ mode = "json"
    /\ pc = "start"
    /\ pc' = IF data.Rows = 0 \/ data.Columns = 0 THEN "panic" ELSE "loop"
    /\ UNCHANGED <<mode, img, data, lines, rule, idx, spriteIndex, files, emitted,
                   stderr, positions, order, parts, outName>>

\* A loop iteration on an entry with skip = true.
JsonSkip ==
    /\ mode = "json"
    /\ pc = "loop"
    /\ idx <= Len(data.Pokemon)
    /\ IsSkipped(data.Pokemon[idx])
    /\ spriteIndex' = spriteIndex + SkipAdvance(data.Pokemon[idx])
    /\ idx' = idx + 1
    /\ UNCHANGED <<pc, mode, img, data, lines, rule, files, emitted, stderr,
                   positions, order, parts, outName>>

\* A loop iteration on an entry with skip = false.
JsonSprite ==
    /\ mode = "json"
    /\ pc = "loop"
    /\ idx <= Len(data.Pokemon)
    /\ ~IsSkipped(data.Pokemon[idx])
    /\ LET pokemon == data.Pokemon[idx]
           row     == GridRow(spriteIndex)
           column  == GridColumn(spriteIndex)
           sx      == GridSrcX(column)
           sy      == GridSrcY(row)
           path    == GridOutName(pokemon)
       IN  IF NewRGBAPanics(GridOutW, GridOutH)
           THEN /\ pc' = "panic"
                /\ UNCHANGED <<files, emitted, spriteIndex, idx>>
           ELSE IF EncodeFails(GridOutW, GridOutH)
           THEN /\ pc' = "panic"
                /\ files' = WriteFile(files, path, EmptyFile)
                /\ UNCHANGED <<emitted, spriteIndex, idx>>
           ELSE /\ files' = WriteFile(files, path,
                        PngFile(GridOutW, GridOutH, Draw(img, sx, sy, GridOutW, GridOutH)))
                /\ emitted' = Append(emitted,
                        [entry |-> idx, path |-> path, row |-> row, column |-> column,
                         x |-> sx, y |-> sy, w |-> GridOutW, h |-> GridOutH,
                         pix |-> Draw(img, sx, sy, GridOutW, GridOutH)])
                /\ spriteIndex' = spriteIndex + 1
                /\ idx' = idx + 1
                /\ pc' = pc
    /\ UNCHANGED <<mode, img, data, lines, rule, stderr, positions, order, parts, outName>>

\* The loop has run over every entry.
JsonReturn ==
    /\ mode = "json"
    /\ pc = "loop"
    /\ idx > Len(data.Pokemon)
    /\ pc' = "done"
    /\ UNCHANGED <<mode, img, data, lines, rule, idx, spriteIndex, files, emitted,
                   stderr, positions, order, parts, outName>>

---------------------------------------------------------------------------
(* chopFromSCSS *)

\* chopFromSCSS's lineRE: m[1] the selector after ".pkicon.pkicon-", m[2]
\* width, m[3] height, m[4] and m[5] the background position.
chopLineRE ==
    << L(<<".","p","k","i","c","o","n",".","p","k","i","c","o","n","-">>), G("selector"),
       WS, L(<<"{">>), WS, L(<<"w","i","d","t","h",":">>), WS, G("digit"), L(<<"p","x",";">>),
       WS, L(<<"h","e","i","g","h","t",":">>), WS, G("digit"), L(<<"p","x",";">>),
       WS, L(<<"b","a","c","k","g","r","o","u","n","d","-","p","o","s","i","t","i","o","n",":">>), WS, NUM, L(<<"p","x">>), WS, NUM, L(<<"p","x",";">>) >>

\* lineRE.FindStringSubmatch(line)
ChopREFind(s) == ReFind(s, chopLineRE)

\* The head of a loop iteration: the match, the numbers and the output
\* name of the line.
ScssParse(line) ==
    LET m == ChopREFind(line)
    IN  IF ~m.ok THEN NoMatch
        ELSE [ok |-> TRUE, selector |-> m.m[1],
              outName |-> scssSelectorToFilename(m.m[1]),
              w |-> atoi(m.m[2]), h |-> atoi(m.m[3]),
              srcX |-> 0 - atoi(m.m[4]), srcY |-> 0 - atoi(m.m[5])]

\* The bounds test of a rule against the image.
ScssOutsideNoFarEdge(r) == r.srcX < 0 \/ r.srcY < 0

ScssOutsideNoNearEdge(r) == r.srcX + r.w > img.W \/ r.srcY + r.h > img.H

ScssOutside(r) ==
    r.srcX < 0 \/ r.srcY < 0 \/ r.srcX + r.w > img.W \/ r.srcY + r.h > img.H

\* The line written to os.Stderr for a rule outside the image.
ScssDiagnostic(r) ==
    <<"c","h","o","p",":"," ","s","k","i","p"," ">> \o r.outName \o <<" ","(","b","o","u","n","d","s"," ">> \o Itoa(r.srcX) \o <<",">>
    \o Itoa(r.srcY) \o <<" ">> \o Itoa(r.w) \o <<"x">> \o Itoa(r.h)
    \o <<" ","o","u","t","s","i","d","e"," ","i","m","a","g","e",")">> \o <<"\n">>

\* filepath.Join("images", outName), for the names of the model, which hold
\* no path separator and no dot segment.
ScssOutPath(name) == <<"i","m","a","g","e","s","/">> \o name

\* The next line is matched against lineRE and its selector resolved.
ScssMatch ==
    /\ mode = "scss"
    /\ pc = "loop"
    /\ idx <= Len(lines)
    /\ rule' = ScssParse(lines[idx])
    /\ pc' = "rule"
    /\ UNCHANGED <<mode, img, data, lines, idx, spriteIndex, files, emitted,
                   stderr, positions, order, parts, outName>>

\* No match, or a selector that resolves to no name: continue.
ScssIgnore ==
    /\ mode = "scss"
    /\ pc = "rule"
    /\ IF rule.ok THEN rule.outName = Empty ELSE TRUE
    /\ idx' = idx + 1
    /\ pc' = "loop"
    /\ UNCHANGED <<mode, img, data, lines, rule, spriteIndex, files, emitted,
                   stderr, positions, order, parts, outName>>

\* A rule whose rectangle is outside the image: diagnostic, continue.
ScssSkip ==
    /\ mode = "scss"
    /\ pc = "rule"
    /\ rule.ok
    /\ rule.outName # Empty
    /\ ScssOutside(rule)
    /\ stderr' = Append(stderr, ScssDiagnostic(rule))
    /\ idx' = idx + 1
    /\ pc' = "loop"
    /\ UNCHANGED <<mode, img, data, lines, rule, spriteIndex, files, emitted,
                   positions, order, parts, outName>>

\* A rule inside the image: crop, create the file, encode.
ScssSprite ==
    /\ mode = "scss"
    /\ pc = "rule"
    /\ rule.ok
    /\ rule.outName # Empty
    /\ ~ScssOutside(rule)
    /\ IF EncodeFails(rule.w, rule.h)
       THEN /\ pc' = "panic"
            /\ files' = WriteFile(files, ScssOutPath(rule.outName), EmptyFile)
            /\ UNCHANGED <<emitted, idx>>
       ELSE /\ files' = WriteFile(files, ScssOutPath(rule.outName),
                    PngFile(rule.w, rule.h,
                            Draw(img, rule.srcX, rule.srcY, rule.w, rule.h)))
            /\ emitted' = Append(emitted,
                    [entry |-> idx, path |-> ScssOutPath(rule.outName),
                     x |-> rule.srcX, y |-> rule.srcY, w |-> rule.w, h |-> rule.h,
                     pix |-> Draw(img, rule.srcX, rule.srcY, rule.w, rule.h)])
            /\ idx' = idx + 1
            /\ pc' = "loop"
    /\ UNCHANGED <<mode, img, data, lines, rule, spriteIndex, stderr, positions,
                   order, parts, outName>>

\* The loop has run over every line.
ScssReturn ==
    /\ mode = "scss"
    /\ pc = "loop"
    /\ idx > Len(lines)
    /\ pc' = "done"
    /\ UNCHANGED <<mode, img, data, lines, rule, idx, spriteIndex, files,
                   emitted, stderr, positions, order, parts, outName>>

---------------------------------------------------------------------------
(* positions: lineRE and extractSpritePositions *)

\* var lineRE: m[1] the id, m[2] the form, m[3] the game family, m[4] the
\* color, m[5] width, m[6] height, m[7] and m[8] the background position.
lineRE ==
    << L(<<".","p","k","i","c","o","n",".","p","k","i","c","o","n","-">>), G("digit"),
       OPT(<<".","f","o","r","m","-">>, "name"),
       OPT(<<".","g","a","m","e","-","f","a","m","i","l","y","-">>, "name"),
       OPT(<<".","c","o","l","o","r","-">>, "color"),
       WS, L(<<"{">>), WS, L(<<"w","i","d","t","h",":">>), WS, G("digit"), L(<<"p","x",";">>),
       WS, L(<<"h","e","i","g","h","t",":">>), WS, G("digit"), L(<<"p","x",";">>),
       WS, L(<<"b","a","c","k","g","r","o","u","n","d","-","p","o","s","i","t","i","o","n",":">>), WS, NUM, L(<<"p","x">>), WS1, NUM, L(<<"p","x",";">>),
       WS, L(<<"}">>) >>

\* lineRE.FindStringSubmatch(line)
LineREFind(s) == ReFind(s, lineRE)

\* The key a matched line is stored under.
PosKey(m) ==
    <<"p","o","k","e","m","o","n","-">> \o Itoa(atoi(m[1]))
    \o (IF m[2] # Empty THEN <<"-">> \o m[2] ELSE Empty)
    \o (IF m[3] # Empty THEN <<"-">> \o m[3] ELSE Empty)
    \o (IF m[4] = <<"s","h","i","n","y">> THEN <<"-","s","h","i","n","y">> ELSE Empty)

PosValue(m) ==
    [Width |-> atoi(m[5]), Height |-> atoi(m[6]),
     BackgroundPosition |-> m[7] \o <<"p","x"," ">> \o m[8] \o <<"p","x">>]

\* The order slice after a matched line with key k.
PosOrderAppend(ord, k) == Append(ord, k)

\* One iteration of the loop over the lines.
PosStep ==
    /\ mode = "positions"
    /\ pc = "loop"
    /\ idx <= Len(lines)
    /\ LET m == LineREFind(lines[idx])
       IN  IF ~m.ok
           THEN UNCHANGED <<positions, order>>
           ELSE /\ positions' = (PosKey(m.m) :> PosValue(m.m)) @@ positions
                /\ order' = PosOrderAppend(order, PosKey(m.m))
    /\ idx' = idx + 1
    /\ UNCHANGED <<pc, mode, img, data, lines, rule, spriteIndex, files, emitted,
                   stderr, parts, outName>>

\* The loop has run over every line: return positions, order.
PosReturn ==
    /\ mode = "positions"
    /\ pc = "loop"
    /\ idx > Len(lines)
    /\ pc' = "done"
    /\ UNCHANGED <<mode, img, data, lines, rule, idx, spriteIndex, files, emitted,
                   stderr, positions, order, parts, outName>>

---------------------------------------------------------------------------
(* Stylesheet text.  Rule builds a rule line the way the scss task prints  *)
(* it; the other lines are what a stylesheet may hold besides.             *)

Rule(selector, w, h, x, y) ==
    <<".","p","k","i","c","o","n",".","p","k","i","c","o","n","-">> \o selector \o <<" ","{"," ","w","i","d","t","h",":"," ">> \o Itoa(w)
    \o <<"p","x",";"," ","h","e","i","g","h","t",":"," ">> \o Itoa(h) \o <<"p","x",";"," ","b","a","c","k","g","r","o","u","n","d","-","p","o","s","i","t","i","o","n",":"," ">>
    \o Itoa(x) \o <<"p","x"," ">> \o Itoa(y) \o <<"p","x",";"," ","}">>

\* A rule whose closing brace is missing.
RuleUnclosed(selector, w, h, x, y) ==
    <<".","p","k","i","c","o","n",".","p","k","i","c","o","n","-">> \o selector \o <<" ","{"," ","w","i","d","t","h",":"," ">> \o Itoa(w)
    \o <<"p","x",";"," ","h","e","i","g","h","t",":"," ">> \o Itoa(h) \o <<"p","x",";"," ","b","a","c","k","g","r","o","u","n","d","-","p","o","s","i","t","i","o","n",":"," ">>
    \o Itoa(x) \o <<"p","x"," ">> \o Itoa(y) \o <<"p","x",";">>

\* A rule whose opening brace is missing.
RuleUnopened(selector, w, h, x, y) ==
    <<".","p","k","i","c","o","n",".","p","k","i","c","o","n","-">> \o selector \o <<" ","w","i","d","t","h",":"," ">> \o Itoa(w)
    \o <<"p","x",";"," ","h","e","i","g","h","t",":"," ">> \o Itoa(h) \o <<"p","x",";"," ","b","a","c","k","g","r","o","u","n","d","-","p","o","s","i","t","i","o","n",":"," ">>
    \o Itoa(x) \o <<"p","x"," ">> \o Itoa(y) \o <<"p","x",";"," ","}">>

\* A rule without background-position.
RuleNoPosition(selector, w, h) ==
    <<".","p","k","i","c","o","n",".","p","k","i","c","o","n","-">> \o selector \o <<" ","{"," ","w","i","d","t","h",":"," ">> \o Itoa(w)
    \o <<"p","x",";"," ","h","e","i","g","h","t",":"," ">> \o Itoa(h) \o <<"p","x",";"," ","}">>

OtherCSS == <<".","p","k","i","c","o","n"," ","{"," ","d","i","s","p","l","a","y",":"," ","i","n","l","i","n","e","-","b","l","o","c","k",";"," ","}">>

CanonicalSel == <<"0","2","5",".","f","o","r","m","-","c","a","p",".","g","a","m","e","-","f","a","m","i","l","y","-","l","e","g","e","n","d","s","_","a","r","c","e","u","s",".","c","o","l","o","r","-","s","h","i","n","y">>
PermutedSels == { <<"0","2","5",".","c","o","l","o","r","-","s","h","i","n","y",".","f","o","r","m","-","c","a","p",".","g","a","m","e","-","f","a","m","i","l","y","-","l","e","g","e","n","d","s","_","a","r","c","e","u","s">> }

PosLinePool ==
    { Rule(<<"0","0","1">>, 20, 19, 0, 0 - 56),
      Rule(<<"1">>, 21, 20, 0 - 67, 0 - 56),
      Rule(<<"0","0","1",".","c","o","l","o","r","-","r","e","g","u","l","a","r">>, 22, 20, 0 - 88, 0),
      Rule(CanonicalSel, 21, 20, 0 - 67, 0 - 56),
      RuleUnclosed(<<"0","0","2">>, 20, 19, 0, 0),
      RuleNoPosition(<<"0","0","3">>, 20, 19),
      OtherCSS }
    \cup { Rule(sel, 21, 20, 0 - 67, 0 - 56) : sel \in PermutedSels }

PosInputs == UNION { [1..n -> PosLinePool] : n \in 0..MaxLines }

PosInit ==
    /\ mode = "positions"
    /\ pc = "loop"
    /\ lines \in PosInputs
    /\ rule = NoMatch
    /\ idx = 1
    /\ positions = << >>
    /\ order = << >>
    /\ img = [W |-> 0, H |-> 0]
    /\ data = << >>
    /\ spriteIndex = 0
    /\ files = << >>
    /\ emitted = << >>
    /\ stderr = << >>
    /\ parts = Empty
    /\ outName = Empty

PosNext == PosStep \/ PosReturn

SpecPos == PosInit /\ [][PosNext]_vars

---------------------------------------------------------------------------
(* chop: main dispatches on the extension of its argument to chopFromSCSS  *)
(* or chopFromJSON.  The inputs are the file contents after a successful   *)
(* read, unmarshal and decode.                                             *)

Sheet(c, r, o, p, sfx, w, h) ==
    [Columns |-> c, Rows |-> r, Outline |-> o, Padding |-> p, Suffix |-> sfx,
     W |-> w, H |-> h]

\* columns, rows, outline, padding, suffix, image width, image height
Sheets ==
    { Sheet(2, 2, 1, 0, NilStr, 5, 5),
      Sheet(2, 2, 1, 0, NilStr, 7, 5),
      Sheet(2, 2, 1, 0, Str(<<"l","e","g","e","n","d","s","_","a","r","c","e","u","s">>), 7, 7),
      Sheet(2, 2, 1, 0, NilStr, 6, 6),
      Sheet(2, 2, 1, 1, NilStr, 9, 9),
      Sheet(2, 2, 1, 1, NilStr, 5, 5),
      Sheet(2, 2, 1, 0, NilStr, 3, 3),
      Sheet(3, 1, 0, 0, NilStr, 3, 1),
      Sheet(2, 0, 1, 0, NilStr, 5, 5) }

Entry(id, form, skip, n) ==
    [ID |-> id, Form |-> form, Skip |-> skip, SkipCount |-> n]

EntryPool ==
    { Entry(1, NilStr, FALSE, 0),
      Entry(25, Str(<<"c","a","p">>), FALSE, 0),
      Entry(0, NilStr, TRUE, 0),
      Entry(0, NilStr, TRUE, 2),
      Entry(0, NilStr, TRUE, 3) }

EntryLists == UNION { [1..n -> EntryPool] : n \in 0..MaxEntries }

ScssImages == { [W |-> 6, H |-> 6] }

ChopLinePool ==
    { Rule(<<"0","0","1">>, 2, 2, 0, 0),
      Rule(<<"0","0","1",".","c","o","l","o","r","-","s","h","i","n","y">>, 2, 2, 0 - 2, 0),
      Rule(CanonicalSel, 2, 3, 0 - 2, 0 - 2),
      Rule(<<"0","2","5",".","c","o","l","o","r","-","s","h","i","n","y",".","f","o","r","m","-","c","a","p",".","g","a","m","e","-","f","a","m","i","l","y","-","l","e","g","e","n","d","s","_","a","r","c","e","u","s">>, 2, 3, 0 - 2, 0 - 2),
      Rule(<<"b","a","l","l","-","l","o","v","e",".","c","o","l","o","r","-","s","h","i","n","y">>, 2, 2, 0 - 4, 0 - 4),
      Rule(<<"0","0","2">>, 2, 2, 0 - 5, 0 - 5),
      Rule(<<"0","0","3">>, 2, 2, 3, 0),
      Rule(<<"c","o","l","o","r","-","s","h","i","n","y">>, 2, 2, 0 - 5, 0 - 5),
      Rule(<<"0","0","1",".","c","o","l","o","r","-","r","e","g","u","l","a","r">>, 2, 2, 0, 0 - 4),
      Rule(<<"0","0","6">>, 0, 2, 0, 0),
      RuleUnclosed(<<"0","0","4">>, 2, 2, 0, 0),
      RuleNoPosition(<<"0","0","5">>, 2, 2),
      RuleUnopened(<<"0","0","7">>, 2, 2, 0, 0),
      OtherCSS }

ChopInputs == UNION { [1..n -> ChopLinePool] : n \in 0..MaxRules }

ChopInit ==
    /\ \/ /\ mode = "json"
          /\ pc = "start"
          /\ \E s \in Sheets, l \in EntryLists :
                /\ img = [W |-> s.W, H |-> s.H]
                /\ data = [Columns |-> s.Columns, Rows |-> s.Rows,
                           Outline |-> s.Outline, Padding |-> s.Padding,
                           Suffix |-> s.Suffix, Pokemon |-> l]
          /\ lines = << >>
       \/ /\ mode = "scss"
          /\ pc = "loop"
          /\ img \in ScssImages
          /\ lines \in ChopInputs
          /\ data = << >>
    /\ rule = NoMatch
    /\ idx = 1
    /\ spriteIndex = 0
    /\ files = << >>
    /\ emitted = << >>
    /\ stderr = << >>
    /\ positions = << >>
    /\ order = << >>
    /\ parts = Empty
    /\ outName = Empty

ChopNext ==
    \/ JsonStart
    \/ JsonSkip
    \/ JsonSprite
    \/ JsonReturn
    \/ ScssMatch
    \/ ScssIgnore
    \/ ScssSkip
    \/ ScssSprite
    \/ ScssReturn

SpecChop == ChopInit /\ [][ChopNext]_vars

---------------------------------------------------------------------------
(* Claims about chop's grid mode (SpecChop). *)

NonSkipped(l, n) == {i \in 1..n : ~l[i].Skip}

EmittedFor(i) == {k \in 1..Len(emitted) : emitted[k].entry = i}

\* C1: in grid mode with columns > 0 and rows > 0, a run that completes has
\* written exactly one sprite file for every entry with skip = false and none
\* for an entry with skip = true: the number of sprite files emitted equals
\* the number of entries with skip = false, and each of them is in ./images.
C1_OneFilePerEntry ==
    (mode = "json" /\ pc = "done" /\ data.Columns > 0 /\ data.Rows > 0) =>
        /\ Len(emitted) = Cardinality(NonSkipped(data.Pokemon, Len(data.Pokemon)))
        /\ \A i \in 1..Len(data.Pokemon) :
              Cardinality(EmittedFor(i)) = (IF data.Pokemon[i].Skip THEN 0 ELSE 1)
        /\ DOMAIN files = {emitted[k].path : k \in 1..Len(emitted)}
        /\ \A k \in 1..Len(emitted) : files[emitted[k].path].valid

C1_Witness ==
    /\ mode = "json"
    /\ pc = "done"
    /\ Len(emitted) = 2
    /\ Len(data.Pokemon) = 4
    /\ data.Pokemon[1].Skip
    /\ data.Pokemon[3].Skip

\* The cursor the claim computes for the first n entries.
RECURSIVE ExpectedCursor(_, _)
ExpectedCursor(l, n) ==
    IF n = 0 THEN 0
    ELSE ExpectedCursor(l, n - 1)
         + (IF ~l[n].Skip THEN 1
            ELSE IF l[n].SkipCount = 0 THEN 1
            ELSE l[n].SkipCount)

\* C2: the grid cursor starts at 0 and after any prefix of the entries equals
\* the number of non-skipped entries of the prefix plus the skipCounts of its
\* skipped entries, 0 counted as 1; the row and column of each emitted sprite
\* are cursor / columns and cursor mod columns (Go's integer arithmetic) at
\* the time it is emitted.
C2_CursorExact ==
    (mode = "json" /\ pc # "start") =>
        /\ spriteIndex = ExpectedCursor(data.Pokemon, idx - 1)
        /\ \A k \in 1..Len(emitted) :
              /\ emitted[k].row =
                    GoDiv(ExpectedCursor(data.Pokemon, emitted[k].entry - 1), data.Columns)
              /\ emitted[k].column =
                    GoMod(ExpectedCursor(data.Pokemon, emitted[k].entry - 1), data.Columns)

\* Skipped entries with skipCount 2, 0, 3 and then a sprite, taken at cursor 6.
C2_Witness ==
    /\ mode = "json"
    /\ pc = "done"
    /\ Len(data.Pokemon) = 4
    /\ \A i \in 1..3 : data.Pokemon[i].Skip
    /\ <<data.Pokemon[1].SkipCount, data.Pokemon[2].SkipCount,
         data.Pokemon[3].SkipCount>> = <<2, 0, 3>>
    /\ Len(emitted) = 1
    /\ emitted[1].row = 3
    /\ emitted[1].column = 0
    /\ spriteIndex = 7

\* The cell of a 2x2 sheet with outline 1 and padding 0 at row i / 2 and
\* column i mod 2, outline excluded: cw x ch pixels.
Quadrant(i) ==
    LET cw == (img.W - 3) \div 2
        ch == (img.H - 3) \div 2
    IN  [p \in (0..(cw - 1)) \X (0..(ch - 1)) |->
            Pixel(img, (i % 2) * cw + ((i % 2) + 1) + p[1],
                       (i \div 2) * ch + ((i \div 2) + 1) + p[2])]

\* C3: on a 2x2 sheet with outline 1 and padding 0 whose width and height
\* divide evenly, with 4 entries none skipped, each of the 4 crops equals
\* pixel for pixel the corresponding quadrant of the source image.
C3_RoundTrip ==
    ( /\ mode = "json"
      /\ pc = "done"
      /\ data.Columns = 2 /\ data.Rows = 2
      /\ data.Outline = 1 /\ data.Padding = 0
      /\ (img.W - 3) % 2 = 0 /\ (img.H - 3) % 2 = 0
      /\ Len(data.Pokemon) = 4
      /\ \A i \in 1..4 : ~data.Pokemon[i].Skip ) =>
        /\ Len(emitted) = 4
        /\ \A k \in 1..4 : emitted[k].pix = Quadrant(k - 1)

---------------------------------------------------------------------------
(* Claims about chop's stylesheet mode (SpecChop). *)

\* The pixels of a rectangle.
RectPixels(x, y, w, h) == (x..(x + w - 1)) \X (y..(y + h - 1))

\* The rectangle x, y, w, h is not entirely inside the image.
NotInside(x, y, w, h) == x < 0 \/ y < 0 \/ x + w > img.W \/ y + h > img.H

\* What the step that handles an out-of-bounds rule does: no file, one
\* diagnostic line, the loop goes on to the next line and nothing else of
\* the run's state changes.
BoundsSkipStep ==
    /\ files' = files
    /\ emitted' = emitted
    /\ Len(stderr') = Len(stderr) + 1
    /\ SubSeq(stderr', 1, Len(stderr)) = stderr
    /\ Cardinality({i \in 1..Len(stderr'[Len(stderr')]) :
                        stderr'[Len(stderr')][i] = "\n"}) = 1
    /\ pc' = "loop"
    /\ idx' = idx + 1
    /\ UNCHANGED <<mode, img, lines>>

\* C4 as stated: every matched rule whose rectangle (x = -offsetX,
\* y = -offsetY, width, height) is not entirely inside the image produces no
\* file and exactly one diagnostic line, does not abort, and leaves the
\* handling of the later rules unchanged.
C4_Original ==
    [][ ( /\ mode = "scss" /\ pc = "rule" /\ rule.ok
          /\ NotInside(rule.srcX, rule.srcY, rule.w, rule.h) )
        => BoundsSkipStep ]_vars

\* C4 as amended: the same, for a matched rule whose selector resolves to a
\* file name (a rule without a base token is dropped before the bounds test,
\* without a diagnostic).
C4_BoundsSkip ==
    [][ ( /\ mode = "scss" /\ pc = "rule" /\ rule.ok
          /\ rule.outName # Empty
          /\ NotInside(rule.srcX, rule.srcY, rule.w, rule.h) )
        => BoundsSkipStep ]_vars

\* An out-of-bounds rule has been skipped and the rule after it written.
C4_Witness ==
    /\ mode = "scss"
    /\ pc = "done"
    /\ Len(lines) = 2
    /\ Len(stderr) = 1
    /\ Len(emitted) = 1
    /\ emitted[1].entry = 2
    /\ DOMAIN files = {emitted[1].path}

MalformedLines ==
    { RuleUnclosed(<<"0","0","4">>, 2, 2, 0, 0),
      RuleNoPosition(<<"0","0","5">>, 2, 2),
      RuleUnopened(<<"0","0","7">>, 2, 2, 0, 0) }

\* C8: a malformed line (no background-position, or unmatched braces such as
\* a missing closing brace) yields no rule: no output file, no diagnostic,
\* no abort.
C8_MalformedIgnored ==
    mode = "scss" =>
        /\ \A k \in 1..Len(emitted) : lines[emitted[k].entry] \notin MalformedLines
        /\ (\A i \in 1..Len(lines) : lines[i] \in MalformedLines) =>
              (files = << >> /\ stderr = << >> /\ pc # "panic")

---------------------------------------------------------------------------
(* Claims about scssSelectorToFilename (SpecSel). *)

\* The selectors of the claim: one base token and any of the modifiers
\* form-<f>, game-family-<g>, color-shiny, in any order.
PolicySelectors ==
    { s \in SelectorInputs :
        /\ Cardinality({i \in 1..Len(s) : s[i] \in BaseTokens}) = 1
        /\ \A i \in 1..Len(s) : s[i] # RegularMod }

Has(s, seg) == \E i \in 1..Len(s) : s[i] = seg

BaseOf(s) == s[CHOOSE i \in 1..Len(s) : s[i] \in BaseTokens]

\* The reference filename policy.
PolicyName(s) ==
    IF BaseOf(s) = <<"b","a","l","l","-","l","o","v","e">> THEN <<"l","o","v","e","-","b","a","l","l",".","p","n","g">>
    ELSE BaseOf(s)
         \o (IF Has(s, ShinyMod) THEN <<"-","s","h","i","n","y">> ELSE Empty)
         \o (IF Has(s, FamilyMod) THEN <<"-","l","e","g","e","n","d","s","_","a","r","c","e","u","s">> ELSE Empty)
         \o (IF Has(s, FormMod) THEN <<"-","c","a","p">> ELSE Empty)
         \o <<".","p","n","g">>

\* C6: for a selector made of one base token and any subset of the modifiers
\* in any order, the result is love-ball.png for the base token ball-love and
\* otherwise <base>[-shiny][-<g>][-<f>].png, whatever the order of the
\* modifiers.
C6_FilenamePolicy ==
    (mode = "selector" /\ pc = "done") =>
        \A s \in PolicySelectors :
            parts = Join(s, <<".">>) => outName = PolicyName(s)

C6_Witness ==
    /\ mode = "selector"
    /\ pc = "done"
    /\ parts = <<"f","o","r","m","-","c","a","p",".","0","2","5",".","c","o","l","o","r","-","s","h","i","n","y",".","g","a","m","e","-","f","a","m","i","l","y","-","l","e","g","e","n","d","s","_","a","r","c","e","u","s">>
    /\ outName = <<"0","2","5","-","s","h","i","n","y","-","l","e","g","e","n","d","s","_","a","r","c","e","u","s","-","c","a","p",".","p","n","g">>

KeywordPrefixed(seg) ==
    HasPrefix(seg, <<"f","o","r","m","-">>) \/ HasPrefix(seg, <<"g","a","m","e","-","f","a","m","i","l","y","-">>)
    \/ HasPrefix(seg, <<"c","o","l","o","r","-">>)

\* C9: the base token is the unprefixed segment: in a selector with one
\* segment that starts with none of form-, game-family-, color-, every other
\* segment is a modifier and never the base token, so the file name begins
\* with the unprefixed segment (or is love-ball.png for ball-love) and with
\* no keyword-prefixed one.
C9_BaseIsUnprefixed ==
    (mode = "selector" /\ pc = "done") =>
        \A s \in SelectorInputs :
            parts = Join(s, <<".">>) =>
                \A i \in 1..Len(s) :
                    (/\ ~KeywordPrefixed(s[i])
                     /\ \A j \in 1..Len(s) : j # i => KeywordPrefixed(s[j]))
                    => /\ IF s[i] = <<"b","a","l","l","-","l","o","v","e">> THEN outName = <<"l","o","v","e","-","b","a","l","l",".","p","n","g">>
                          ELSE HasPrefix(outName, s[i])
                       /\ \A j \in 1..Len(s) :
                             j # i => ~HasPrefix(outName, s[j])

---------------------------------------------------------------------------
(* Claims about extractSpritePositions (SpecPos). *)

\* C7: when a key appears in several matching rules the mapping holds the
\* data of the last one and the order sequence holds the key once, at its
\* first occurrence: order has no duplicate and is as long as the mapping
\* has keys.
C7_OrderFirstSeen ==
    mode = "positions" =>
        /\ \A i, j \in 1..Len(order) : i # j => order[i] # order[j]
        /\ Len(order) = Cardinality(DOMAIN positions)

CanonicalKey == <<"p","o","k","e","m","o","n","-","2","5","-","c","a","p","-","l","e","g","e","n","d","s","_","a","r","c","e","u","s","-","s","h","i","n","y">>

\* C10: a rule line whose modifiers come in another order than form,
\* game-family, color is matched like the line in canonical order and yields
\* the same key and the same width, height and position.
C10_OrderInvariant ==
    (mode = "positions" /\ pc = "done") =>
        \A i \in 1..Len(lines) :
            (\E sel \in PermutedSels : lines[i] = Rule(sel, 21, 20, 0 - 67, 0 - 56)) =>
                /\ CanonicalKey \in DOMAIN positions
                /\ positions[CanonicalKey] =
                       [Width |-> 21, Height |-> 20,
                        BackgroundPosition |-> <<"-","6","7","p","x"," ","-","5","6","p","x">>]

===========================================================================
